---------------------------- MODULE Spec2Model ----------------------------
(***************************************************************************)
(* wokwi_chips_api: the watch/callback registries of gpio.rs and pin.rs    *)
(* and the I2C device registry of i2c.rs, with the host (wokwi_chip_ll)    *)
(* as the environment that arms watches and calls the trampolines.         *)
(*                                                                         *)
(* The three source modules share no state, so a behaviour exercises one   *)
(* of them: `api' is chosen in Init and never changes.                     *)
(***************************************************************************)
EXTENDS Integers, Sequences, FiniteSets, TLC

\* ------------------------------------------------------------- bounds
NumAddrs == 2         \* memory places a GPIOPin handle may live at
MaxListeners == 2     \* cap on Len(CALLBACK_REGISTRY), which pin.rs never shrinks
MaxDevices == 1       \* cap on the number of i2c::create calls

\* Option::None (gpio.rs 74), the null user_data, no pin
None == 0
\* two pins and two callbacks: the pin and another pin, cb1 and cb2
GPins == {1, 2}
PPins == {1, 2}
Cbs == {1, 2}
Addrs == 1..NumAddrs
Devs == 1..MaxDevices
RawLevels == {0, 1}
\* the raw levels of the I/O behaviours (u32): zero, one, another nonzero value
AllLevels == {0, 1, 255}
\* gpio.rs 15-23: three of the seven PinMode variants; NoMode: no pinInit yet
Modes == {"Input", "Output", "InputPullup"}
NoMode == "NoMode"
BusAddrs == {66, 67}
Bytes == {0, 255}
\* what a callback does while it runs: nothing more, unwatch its own pin, or
\* panic
CbActs == {"none", "unwatch", "panic"}
\* what a bus callback does while it runs
BusActs == {"none", "panic"}

VARIABLES
    api,                \* "gpio" | "pin" | "i2c": the module the chip uses
    gpio,               \* GPIOPin handles: pin id -> [life, loc, watch_callback, mode]
    PIN_REGISTRY,       \* gpio.rs: Vec<*mut GPIOPin>, a sequence of addresses
    CALLBACK_REGISTRY,  \* pin.rs: Vec<PinListener>
    host,               \* the host's pin, per pin id: [armed, user_data, mode]
    i2c,                \* the configs passed to i2c::create: [live, passed]
    I2C_CONFIG_REGISTRY, \* i2c.rs: Vec<*const I2CDeviceConfig>
    bus,                \* the host's I2C devices: the user_data of each i2cInit
    hist,               \* history: what was asked of each pin so far
    lastOp              \* the last call and what it was observed to do

vars == <<api, gpio, PIN_REGISTRY, CALLBACK_REGISTRY, host, i2c,
          I2C_CONFIG_REGISTRY, bus, hist, lastOp>>
gpioVars == <<gpio, PIN_REGISTRY>>
i2cVars == <<i2c, I2C_CONFIG_REGISTRY, bus>>

\* ------------------------------------------------------- value domain
\* gpio.rs 60-64 and 80-84, pin.rs 77-81 and 95-99: raw level to PinValue
PinValueOfSwapped(value) == IF value = 0 THEN "High" ELSE "Low"
\* a conversion that takes only raw level 1 for High
PinValueOfOne(value) == IF value = 1 THEN "High" ELSE "Low"
PinValueOf(value) == IF value = 0 THEN "Low" ELSE "High"

\* ------------------------------------------------------------ history
Fresh == [phase |-> "fresh", cb |-> None, clean |-> FALSE, re |-> FALSE,
          second |-> FALSE, self |-> FALSE]

\* a watch call that returned `ret'; hadReg: a registration existed before it
HistWatch(h, c, ret, hadReg) ==
    IF h.phase = "watching" THEN [h EXCEPT !.second = TRUE]
    ELSE IF ret THEN [phase |-> "watching", cb |-> c, clean |-> ~hadReg,
                      re |-> (h.phase = "unwatched"), second |-> FALSE,
                      self |-> FALSE]
    ELSE h

\* an unwatch call; bySelf: made by the pin's own callback during dispatch
HistUnwatch(h, bySelf) ==
    IF h.phase = "watching"
    THEN [Fresh EXCEPT !.phase = "unwatched", !.self = bySelf]
    ELSE h

NoOp == [op |-> "init", pin |-> None, accepts |-> FALSE, address |-> 0,
         write |-> FALSE, data |-> 0, byte |-> 0, hasRet |-> FALSE,
         slotRet |-> FALSE,
         ret |-> FALSE, armCalls |-> 0, stopCalls |-> 0, raw |-> 0,
         act |-> "none", invoked |-> <<>>, outcome |-> "ok",
         hadReg |-> FALSE, level |-> "Low", mode |-> NoMode, was |-> Fresh]

\* the chip is still running: no callback has panicked out of a trampoline
\* (the process ends at the extern "C" boundary) and no freed memory has been
\* read (nothing is defined after that)
Running == lastOp.outcome = "ok"

\* --------------------------------------------------------------- host
\* wokwi_chip_ll::pinWatch: the host arms the watch iff it accepts
pinWatch(hst, p, user_data, accepts) ==
    IF accepts THEN [hst EXCEPT ![p].armed = TRUE, ![p].user_data = user_data]
    ELSE hst

\* wokwi_chip_ll::pinWatchStop: the watch is disarmed; a notification already
\* under way may still arrive with the token the host was given
pinWatchStop(hst, p) == [hst EXCEPT ![p].armed = FALSE]

\* gpio.rs 58-65, pin.rs 63-83, i2c.rs 25-55: the trampolines call the
\* callback directly, with no catch_unwind around it, so a panic in the
\* callback leaves the extern "C" entry point by unwinding (an abort or trap
\* at the boundary) and the entry point does not return to the host
CallbackOutcome(act, otherwise) == IF act = "panic" THEN "panic" ELSE otherwise

\* ------------------------------------------------------------ gpio.rs
\* the handle living at address a, or None
HandleAt(g, a) ==
    IF \E q \in GPins : g[q].loc = a
    THEN CHOOSE q \in GPins : g[q].loc = a
    ELSE None

\* gpio.rs 122: self.watch_callback.is_some()
CallbackExistsNever(h) == FALSE
CallbackExists(h) == h.watch_callback # None

\* an unwatch that stops the host's watch and leaves PIN_REGISTRY alone
GpioUnwatchKeepsEntry(g, reg, hst, p) ==
    IF g[p].watch_callback = None
    THEN [reg |-> reg, host |-> hst, stopCalls |-> 0]
    ELSE [reg |-> reg, host |-> pinWatchStop(hst, p), stopCalls |-> 1]

\* gpio.rs 145-157: GPIOPin::unwatch, as a function of the state
GpioUnwatch(g, reg, hst, p) ==
    IF g[p].watch_callback = None
    THEN [reg |-> reg, host |-> hst, stopCalls |-> 0]
    ELSE [reg |-> SelectSeq(reg, LAMBDA pin : pin # g[p].loc),
          host |-> pinWatchStop(hst, p), stopCalls |-> 1]

\* wokwi_chip_ll::pinInit and pinMode: the host takes the mode it is sent
pinMode(hst, p, mode) == [hst EXCEPT ![p].mode = mode]

\* gpio.rs 68-76: GPIOPin::new, once per pin name; the caller places the
\* handle at a free address
GPIOPin_new(p, a, mode) ==
    /\ api = "gpio"
    /\ Running
    /\ gpio[p].life = "unborn"
    /\ HandleAt(gpio, a) = None
    /\ gpio' = [gpio EXCEPT ![p] = [life |-> "live", loc |-> a,
                                    watch_callback |-> None, mode |-> mode]]
    /\ host' = pinMode(host, p, mode)
    /\ hist' = [hist EXCEPT ![p] = Fresh]
    /\ lastOp' = [NoOp EXCEPT !.op = "new", !.pin = p]
    /\ UNCHANGED <<api, PIN_REGISTRY, CALLBACK_REGISTRY, i2cVars>>

\* gpio.rs 117-143: GPIOPin::watch. The edge is handed to the host unchanged
\* and read nowhere else, so it is left out; accepts is pinWatch's result.
GPIOPin_watch(p, c, accepts) ==
    /\ api = "gpio"
    /\ Running
    /\ gpio[p].life = "live"
    /\ IF CallbackExists(gpio[p])
       THEN /\ UNCHANGED <<gpio, host, PIN_REGISTRY>>
            /\ hist' = [hist EXCEPT ![p] = HistWatch(@, c, FALSE, TRUE)]
            /\ lastOp' = [NoOp EXCEPT !.op = "watch", !.pin = p,
                            !.hadReg = TRUE, !.was = hist[p]]
       ELSE /\ gpio' = [gpio EXCEPT ![p].watch_callback = c]
            /\ host' = pinWatch(host, p, gpio[p].loc, accepts)
            /\ PIN_REGISTRY' = IF accepts THEN Append(PIN_REGISTRY, gpio[p].loc)
                               ELSE PIN_REGISTRY
            /\ hist' = [hist EXCEPT ![p] = HistWatch(@, c, accepts, FALSE)]
            /\ lastOp' = [NoOp EXCEPT !.op = "watch", !.pin = p,
                            !.accepts = accepts, !.ret = accepts,
                            !.armCalls = 1, !.was = hist[p]]
    /\ UNCHANGED <<api, CALLBACK_REGISTRY, i2cVars>>

\* gpio.rs 145-157: GPIOPin::unwatch
GPIOPin_unwatch(p) ==
    /\ api = "gpio"
    /\ Running
    /\ gpio[p].life = "live"
    /\ LET r == GpioUnwatch(gpio, PIN_REGISTRY, host, p) IN
        /\ PIN_REGISTRY' = r.reg
        /\ host' = r.host
        /\ lastOp' = [NoOp EXCEPT !.op = "unwatch", !.pin = p,
                        !.stopCalls = r.stopCalls, !.was = hist[p]]
    /\ hist' = [hist EXCEPT ![p] = HistUnwatch(@, FALSE)]
    /\ UNCHANGED <<api, gpio, CALLBACK_REGISTRY, i2cVars>>

\* gpio.rs 78-86: GPIOPin::read; raw is what pinRead returns
GPIOPin_read(p, raw) ==
    /\ api = "gpio"
    /\ Running
    /\ gpio[p].life = "live"
    /\ lastOp' = [NoOp EXCEPT !.op = "pin_read", !.pin = p, !.raw = raw,
                    !.level = PinValueOf(raw), !.was = hist[p]]
    /\ UNCHANGED <<api, gpioVars, CALLBACK_REGISTRY, host, hist, i2cVars>>

\* gpio.rs 88-92: GPIOPin::write; the level goes to the host's pinWrite
GPIOPin_write(p, value) ==
    /\ api = "gpio"
    /\ Running
    /\ gpio[p].life = "live"
    /\ lastOp' = [NoOp EXCEPT !.op = "pin_write", !.pin = p,
                    !.level = value, !.was = hist[p]]
    /\ UNCHANGED <<api, gpioVars, CALLBACK_REGISTRY, host, hist, i2cVars>>

\* gpio.rs 102-104: GPIOPin::get_mode
GPIOPin_get_mode(p) ==
    /\ api = "gpio"
    /\ Running
    /\ gpio[p].life = "live"
    /\ lastOp' = [NoOp EXCEPT !.op = "get_mode", !.pin = p,
                    !.mode = gpio[p].mode, !.was = hist[p]]
    /\ UNCHANGED <<api, gpioVars, CALLBACK_REGISTRY, host, hist, i2cVars>>

\* a set_mode that sends the mode to the host and keeps the old local mode
GPIOPin_set_mode_HostOnly(p, mode) ==
    /\ api = "gpio"
    /\ Running
    /\ gpio[p].life = "live"
    /\ host' = pinMode(host, p, mode)
    /\ lastOp' = [NoOp EXCEPT !.op = "set_mode", !.pin = p, !.mode = mode,
                    !.was = hist[p]]
    /\ UNCHANGED <<api, gpioVars, CALLBACK_REGISTRY, hist, i2cVars>>

\* gpio.rs 106-111: GPIOPin::set_mode
GPIOPin_set_mode(p, mode) ==
    /\ api = "gpio"
    /\ Running
    /\ gpio[p].life = "live"
    /\ gpio' = [gpio EXCEPT ![p].mode = mode]
    /\ host' = pinMode(host, p, mode)
    /\ lastOp' = [NoOp EXCEPT !.op = "set_mode", !.pin = p, !.mode = mode,
                    !.was = hist[p]]
    /\ UNCHANGED <<api, PIN_REGISTRY, CALLBACK_REGISTRY, hist, i2cVars>>

\* gpio.rs 47-52: GPIOPin is a plain struct; its owner may move it
GPIOPin_move(p, a) ==
    /\ api = "gpio"
    /\ Running
    /\ gpio[p].life = "live"
    /\ HandleAt(gpio, a) = None
    /\ gpio' = [gpio EXCEPT ![p].loc = a]
    /\ lastOp' = [NoOp EXCEPT !.op = "move", !.pin = p, !.was = hist[p]]
    /\ UNCHANGED <<api, PIN_REGISTRY, CALLBACK_REGISTRY, host, hist, i2cVars>>

\* gpio.rs 47-52: GPIOPin has no Drop impl; dropping it frees the handle and
\* its boxed callback, and nothing else happens
GPIOPin_drop(p) ==
    /\ api = "gpio"
    /\ Running
    /\ gpio[p].life = "live"
    /\ gpio' = [gpio EXCEPT ![p] = [life |-> "dead", loc |-> None,
                                    watch_callback |-> None, mode |-> NoMode]]
    /\ hist' = [hist EXCEPT ![p] = Fresh]
    /\ lastOp' = [NoOp EXCEPT !.op = "drop", !.pin = p, !.was = hist[p]]
    /\ UNCHANGED <<api, PIN_REGISTRY, CALLBACK_REGISTRY, host, i2cVars>>

\* what a read through a dangling user_data may find as the callback: the
\* bytes of some callback, or nothing callable (None)
Junk == Cbs \cup {None}

\* gpio.rs 58-65: pin_change_trampoline, called by the host for pin p with the
\* user_data it was given. The handle at that address is dereferenced; when no
\* handle lives there the read is of freed memory and any outcome is possible.
gpio_pin_change_trampoline(p, value, act, junk) ==
    /\ api = "gpio"
    /\ Running
    /\ host[p].user_data # None
    /\ LET t == host[p].user_data
           q == HandleAt(gpio, t)
           base == [NoOp EXCEPT !.op = "dispatch", !.pin = p, !.raw = value]
       IN
        IF q = None
        THEN /\ act = "none"
             /\ lastOp' = [base EXCEPT !.outcome = "ub",
                    !.invoked = IF junk = None THEN <<>>
                                ELSE <<[cb |-> junk, value |-> PinValueOf(value)]>>]
             /\ UNCHANGED <<PIN_REGISTRY, host, hist>>
        ELSE IF gpio[q].watch_callback = None
        THEN /\ act = "none" /\ junk = None
             /\ lastOp' = [base EXCEPT !.outcome = "panic", !.was = hist[q]]
             /\ UNCHANGED <<PIN_REGISTRY, host, hist>>
        ELSE /\ junk = None
             /\ lastOp' = [base EXCEPT !.act = act, !.was = hist[q],
                    !.outcome = CallbackOutcome(act, "ok"),
                    !.invoked = <<[cb |-> gpio[q].watch_callback,
                                   value |-> PinValueOf(value)]>>]
             /\ IF act = "unwatch"
                THEN LET r == GpioUnwatch(gpio, PIN_REGISTRY, host, q) IN
                      /\ PIN_REGISTRY' = r.reg
                      /\ host' = r.host
                      /\ hist' = [hist EXCEPT ![q] = HistUnwatch(@, TRUE)]
                ELSE UNCHANGED <<PIN_REGISTRY, host, hist>>
    /\ UNCHANGED <<api, gpio, CALLBACK_REGISTRY, i2cVars>>


\* ------------------------------------------------------------- pin.rs
\* a lookup that takes the first listener whatever its pin_id
ResolveIgnoringId(reg, pin_id) ==
    IF reg # <<>> THEN reg[1].callback ELSE None
\* pin.rs 64-69: the first listener registered for pin_id, or None
Resolve(reg, pin_id) ==
    IF \E i \in 1..Len(reg) : reg[i].pin_id = pin_id
    THEN LET i == CHOOSE i \in 1..Len(reg) :
                    /\ reg[i].pin_id = pin_id
                    /\ \A j \in 1..(i - 1) : reg[j].pin_id # pin_id
         IN reg[i].callback
    ELSE None

\* pin.rs 127-145: Pin::watch. The user_data handed to the host is ignored by
\* the trampoline (pin.rs 63), so the host keeps None for it.
Pin_watch(p, c, accepts) ==
    /\ api = "pin"
    /\ Running
    /\ Len(CALLBACK_REGISTRY) < MaxListeners
    /\ CALLBACK_REGISTRY' = Append(CALLBACK_REGISTRY,
                                   [pin_id |-> p, callback |-> c])
    /\ host' = pinWatch(host, p, None, accepts)
    /\ hist' = [hist EXCEPT ![p] =
                  HistWatch(@, c, accepts, Resolve(CALLBACK_REGISTRY, p) # None)]
    /\ lastOp' = [NoOp EXCEPT !.op = "watch", !.pin = p,
                    !.accepts = accepts, !.ret = accepts, !.armCalls = 1,
                    !.hadReg = (Resolve(CALLBACK_REGISTRY, p) # None),
                    !.was = hist[p]]
    /\ UNCHANGED <<api, gpioVars, i2cVars>>

\* pin.rs 147-151: Pin::unwatch
Pin_unwatch(p) ==
    /\ api = "pin"
    /\ Running
    /\ host' = pinWatchStop(host, p)
    /\ hist' = [hist EXCEPT ![p] = HistUnwatch(@, FALSE)]
    /\ lastOp' = [NoOp EXCEPT !.op = "unwatch", !.pin = p, !.stopCalls = 1,
                    !.was = hist[p]]
    /\ UNCHANGED <<api, gpioVars, CALLBACK_REGISTRY, i2cVars>>

\* pin.rs 93-101: Pin::read; raw is what pinRead returns
Pin_read(p, raw) ==
    /\ api = "pin"
    /\ Running
    /\ lastOp' = [NoOp EXCEPT !.op = "pin_read", !.pin = p, !.raw = raw,
                    !.level = PinValueOf(raw), !.was = hist[p]]
    /\ UNCHANGED <<api, gpioVars, CALLBACK_REGISTRY, host, hist, i2cVars>>

\* pin.rs 48-50: Pin is a plain struct with no Drop impl; dropping a handle
\* does nothing, and another handle for the same id may be made by Pin::new
Pin_drop(p) ==
    /\ api = "pin"
    /\ Running
    /\ lastOp' = [NoOp EXCEPT !.op = "drop", !.pin = p, !.was = hist[p]]
    /\ UNCHANGED <<api, gpioVars, CALLBACK_REGISTRY, host, hist, i2cVars>>

\* pin.rs 63-83: pin_change_trampoline
pin_pin_change_trampoline(p, value, act) ==
    /\ api = "pin"
    /\ Running
    /\ LET callback == Resolve(CALLBACK_REGISTRY, p)
           base == [NoOp EXCEPT !.op = "dispatch", !.pin = p, !.raw = value,
                      !.was = hist[p]]
       IN
        IF callback = None
        THEN /\ act = "none"
             /\ lastOp' = base
             /\ UNCHANGED <<host, hist>>
        ELSE /\ lastOp' = [base EXCEPT !.act = act,
                    !.outcome = CallbackOutcome(act, "ok"),
                    !.invoked = <<[cb |-> callback,
                                   value |-> PinValueOf(value)]>>]
             /\ IF act = "unwatch"
                THEN /\ host' = pinWatchStop(host, p)
                     /\ hist' = [hist EXCEPT ![p] = HistUnwatch(@, TRUE)]
                ELSE UNCHANGED <<host, hist>>
    /\ UNCHANGED <<api, gpioVars, CALLBACK_REGISTRY, i2cVars>>

\* pin.rs 137-142: CALLBACK_REGISTRY.push on a Vec made by Vec::new() with
\* nothing reserved. A push onto a full Vec moves its buffer, and Vec promises
\* no growth strategy, so a push onto n > 0 listeners may or may not move it
MayReallocate(n) == IF n = 0 THEN {TRUE} ELSE BOOLEAN

\* pin.rs 63-83 with 127-145: pin_change_trampoline running a callback that
\* calls Pin::watch(c) on another pin q. The trampoline holds
\* &mut listener.callback, a reference into the Vec's buffer, while the
\* callback runs; when the push moves the buffer that reference dangles.
pin_change_trampoline_watch(p, value, q, c, accepts, moved) ==
    /\ api = "pin"
    /\ Running
    /\ q # p
    /\ Len(CALLBACK_REGISTRY) < MaxListeners
    /\ Resolve(CALLBACK_REGISTRY, p) # None
    /\ CALLBACK_REGISTRY' = Append(CALLBACK_REGISTRY,
                                   [pin_id |-> q, callback |-> c])
    /\ host' = pinWatch(host, q, None, accepts)
    /\ hist' = [hist EXCEPT ![q] =
                  HistWatch(@, c, accepts, Resolve(CALLBACK_REGISTRY, q) # None)]
    /\ lastOp' = [NoOp EXCEPT !.op = "dispatch", !.pin = p, !.raw = value,
                    !.was = hist[p], !.act = "watch",
                    !.accepts = accepts, !.ret = accepts, !.armCalls = 1,
                    !.outcome = IF moved THEN "ub" ELSE "ok",
                    !.invoked = <<[cb |-> Resolve(CALLBACK_REGISTRY, p),
                                   value |-> PinValueOf(value)]>>]
    /\ UNCHANGED <<api, gpioVars, i2cVars>>

\* ------------------------------------------------------------- i2c.rs
\* i2c.rs 10-19: the four optional callback slots of an I2CDeviceConfig
\* (TRUE: Some(callback)); address, scl and sda are only passed on to the host
Slots == [connect_callback : BOOLEAN, read_callback : BOOLEAN,
          write_callback : BOOLEAN, disconnect_callback : BOOLEAN]

\* i2c.rs 89, 106: `config' is a by-value parameter of create, so it is
\* dropped when create returns
LiveAfterCreate == FALSE

\* i2c.rs 26, 35, 44, 51: &mut *(user_data as *mut I2CDeviceConfig). A live
\* config reads as itself; a dropped one reads as whatever the memory holds
Deref(d) == IF i2c[d].live THEN {i2c[d].passed} ELSE Slots

\* what reading one callback slot through user_data may find
SlotSeen(d, slot) == {dev[slot] : dev \in Deref(d)}

\* i2c.rs 27-31: the value i2c_connect_trampoline returns; has: the connect
\* slot read is Some; r: the result of the connect callback when it is called
ConnectResult(has, r) == IF has THEN r ELSE FALSE

\* i2c.rs 36-40: the value i2c_read_trampoline returns
ReadResult(has, b) == IF has THEN b ELSE 0

BusOp(op, d, act) ==
    [NoOp EXCEPT !.op = op, !.pin = d, !.act = act,
                 !.outcome = CallbackOutcome(act, IF i2c[d].live THEN "ok"
                                                  ELSE "ub")]

\* i2c.rs 89-106: create
create(config) ==
    /\ api = "i2c"
    /\ Running
    /\ Len(I2C_CONFIG_REGISTRY) < MaxDevices
    /\ LET d == Len(I2C_CONFIG_REGISTRY) + 1 IN
        /\ bus' = Append(bus, d)
        /\ I2C_CONFIG_REGISTRY' = Append(I2C_CONFIG_REGISTRY, d)
        /\ i2c' = [i2c EXCEPT ![d] = [passed |-> config,
                                      live |-> LiveAfterCreate]]
        /\ lastOp' = [NoOp EXCEPT !.op = "create", !.pin = d]
    /\ UNCHANGED <<api, gpioVars, CALLBACK_REGISTRY, host, hist>>

\* i2c.rs 25-32: i2c_connect_trampoline
i2c_connect_trampoline(d, address, write, has, r, act) ==
    /\ api = "i2c"
    /\ Running
    /\ has \/ (~r /\ act = "none")
    /\ act = "panic" => ~r
    /\ lastOp' = [BusOp("connect", d, act) EXCEPT
                    !.address = address, !.write = write,
                    !.hasRet = (act # "panic"),
                    !.ret = ConnectResult(has, r),
                    !.slotRet = r,
                    !.invoked = IF has
                                THEN <<[cb |-> "connect",
                                        value |-> <<address, write>>]>>
                                ELSE <<>>]
    /\ UNCHANGED <<api, gpioVars, CALLBACK_REGISTRY, host, hist, i2cVars>>

\* i2c.rs 34-41: i2c_read_trampoline
i2c_read_trampoline(d, has, b, act) ==
    /\ api = "i2c"
    /\ Running
    /\ has \/ (b = 0 /\ act = "none")
    /\ act = "panic" => b = 0
    /\ lastOp' = [BusOp("read", d, act) EXCEPT
                    !.hasRet = (act # "panic"), !.byte = ReadResult(has, b),
                    !.invoked = IF has
                                THEN <<[cb |-> "read", value |-> <<>>]>>
                                ELSE <<>>]
    /\ UNCHANGED <<api, gpioVars, CALLBACK_REGISTRY, host, hist, i2cVars>>

\* i2c.rs 43-48: i2c_write_trampoline; the callback's result is dropped and
\* nothing is returned to the host
i2c_write_trampoline(d, data, has, r, act) ==
    /\ api = "i2c"
    /\ Running
    /\ has \/ (~r /\ act = "none")
    /\ act = "panic" => ~r
    /\ lastOp' = [BusOp("write", d, act) EXCEPT
                    !.data = data, !.slotRet = r,
                    !.invoked = IF has
                                THEN <<[cb |-> "write", value |-> <<data>>]>>
                                ELSE <<>>]
    /\ UNCHANGED <<api, gpioVars, CALLBACK_REGISTRY, host, hist, i2cVars>>

\* i2c.rs 50-55: i2c_disconnect_trampoline
i2c_disconnect_trampoline(d, has, act) ==
    /\ api = "i2c"
    /\ Running
    /\ has \/ act = "none"
    /\ lastOp' = [BusOp("disconnect", d, act) EXCEPT
                    !.invoked = IF has
                                THEN <<[cb |-> "disconnect", value |-> <<>>]>>
                                ELSE <<>>]
    /\ UNCHANGED <<api, gpioVars, CALLBACK_REGISTRY, host, hist, i2cVars>>

\* the devices the host calls back: those it was given by i2cInit
BusDevs == {bus[i] : i \in 1..Len(bus)}

\* ------------------------------------------------------ specification
Init ==
    /\ api \in {"gpio", "pin", "i2c"}
    /\ gpio = [p \in GPins |-> [life |-> "unborn", loc |-> None,
                               watch_callback |-> None, mode |-> NoMode]]
    /\ PIN_REGISTRY = <<>>
    /\ CALLBACK_REGISTRY = <<>>
    /\ host = [p \in GPins \cup PPins |->
                  [armed |-> FALSE, user_data |-> None, mode |-> NoMode]]
    /\ hist = [p \in GPins \cup PPins |-> Fresh]
    /\ i2c = [d \in Devs |-> [passed |-> CHOOSE x \in Slots : TRUE,
                              live |-> FALSE]]
    /\ I2C_CONFIG_REGISTRY = <<>>
    /\ bus = <<>>
    /\ lastOp = NoOp

Next ==
    \/ \E p \in GPins, a \in Addrs : GPIOPin_new(p, a, "Input")
    \/ \E p \in GPins, c \in Cbs, accepts \in BOOLEAN : GPIOPin_watch(p, c, accepts)
    \/ \E p \in GPins : GPIOPin_unwatch(p)
    \/ \E p \in GPins, a \in Addrs : GPIOPin_move(p, a)
    \/ \E p \in GPins : GPIOPin_drop(p)
    \/ \E p \in GPins, value \in RawLevels, act \in CbActs, junk \in Junk :
          gpio_pin_change_trampoline(p, value, act, junk)
    \/ \E p \in PPins, c \in Cbs, accepts \in BOOLEAN : Pin_watch(p, c, accepts)
    \/ \E p \in PPins : Pin_unwatch(p)
    \/ \E p \in PPins : Pin_drop(p)
    \/ \E p \in PPins, value \in RawLevels, act \in CbActs :
          pin_pin_change_trampoline(p, value, act)
    \/ \E config \in Slots : create(config)
    \/ \E d \in BusDevs, address \in BusAddrs, write \in BOOLEAN, r \in BOOLEAN,
          act \in BusActs :
          \E has \in SlotSeen(d, "connect_callback") :
              i2c_connect_trampoline(d, address, write, has, r, act)
    \/ \E d \in BusDevs, b \in Bytes, act \in BusActs :
          \E has \in SlotSeen(d, "read_callback") :
              i2c_read_trampoline(d, has, b, act)
    \/ \E d \in BusDevs, data \in Bytes, r \in BOOLEAN, act \in BusActs :
          \E has \in SlotSeen(d, "write_callback") :
              i2c_write_trampoline(d, data, has, r, act)
    \/ \E d \in BusDevs, act \in BusActs :
          \E has \in SlotSeen(d, "disconnect_callback") :
              i2c_disconnect_trampoline(d, has, act)

Spec == Init /\ [][Next]_vars

\* the I/O behaviours: handles that stay where they were made and are not
\* dropped, read and watched, with every raw level
InitIo == Init /\ api \in {"gpio", "pin"}

NextIo ==
    \/ \E p \in GPins, a \in Addrs : GPIOPin_new(p, a, "Input")
    \/ \E p \in GPins, c \in Cbs, accepts \in BOOLEAN : GPIOPin_watch(p, c, accepts)
    \/ \E p \in GPins : GPIOPin_unwatch(p)
    \/ \E p \in GPins, raw \in AllLevels : GPIOPin_read(p, raw)
    \/ \E p \in GPins, value \in AllLevels, act \in {"none", "unwatch"} :
          gpio_pin_change_trampoline(p, value, act, None)
    \/ \E p \in PPins, c \in Cbs, accepts \in BOOLEAN : Pin_watch(p, c, accepts)
    \/ \E p \in PPins : Pin_unwatch(p)
    \/ \E p \in PPins, raw \in AllLevels : Pin_read(p, raw)
    \/ \E p \in PPins, value \in AllLevels, act \in {"none", "unwatch"} :
          pin_pin_change_trampoline(p, value, act)

SpecIo == InitIo /\ [][NextIo]_vars

\* the re-entrant behaviours of pin.rs: callbacks that watch another pin
\* while the trampoline runs them
InitReentrant == Init /\ api = "pin"

NextReentrant ==
    \/ \E p \in PPins, c \in Cbs, accepts \in BOOLEAN : Pin_watch(p, c, accepts)
    \/ \E p \in PPins : Pin_unwatch(p)
    \/ \E p \in PPins, value \in RawLevels, act \in {"none", "unwatch"} :
          pin_pin_change_trampoline(p, value, act)
    \/ \E p \in PPins, value \in RawLevels, q \in PPins, c \in Cbs,
          accepts \in BOOLEAN :
          \E moved \in MayReallocate(Len(CALLBACK_REGISTRY)) :
              pin_change_trampoline_watch(p, value, q, c, accepts, moved)

SpecReentrant == InitReentrant /\ [][NextReentrant]_vars

\* the mode behaviours of GPIOPin: pins made with any mode, set_mode and
\* get_mode, among watch, unwatch, read and write
InitMode == Init /\ api = "gpio"

NextMode ==
    \/ \E p \in GPins, a \in Addrs, mode \in Modes : GPIOPin_new(p, a, mode)
    \/ \E p \in GPins, mode \in Modes : GPIOPin_set_mode(p, mode)
    \/ \E p \in GPins : GPIOPin_get_mode(p)
    \/ \E p \in GPins, c \in Cbs, accepts \in BOOLEAN : GPIOPin_watch(p, c, accepts)
    \/ \E p \in GPins : GPIOPin_unwatch(p)
    \/ \E p \in GPins, raw \in RawLevels : GPIOPin_read(p, raw)
    \/ \E p \in GPins, value \in {"Low", "High"} : GPIOPin_write(p, value)

SpecMode == InitMode /\ [][NextMode]_vars

\* ------------------------------------------------------------- claims
\* the one invocation a dispatch of raw level `raw' owes to callback c
Owed(c, raw) == <<[cb |-> c, value |-> IF raw = 0 THEN "Low" ELSE "High"]>>

\* C1: a watch on a pin with no registration, which the host accepts, returns
\* true, and from then until unwatch every dispatch for that pin's identity
\* invokes its callback exactly once with the converted level (gpio.rs and
\* pin.rs).
C1_WatchThenDispatch ==
    /\ (lastOp.op = "watch" /\ ~lastOp.hadReg /\ lastOp.accepts)
          => (lastOp.ret /\ lastOp.armCalls = 1)
    /\ (lastOp.op = "dispatch" /\ lastOp.was.phase = "watching"
            /\ lastOp.was.clean)
          => lastOp.invoked = Owed(lastOp.was.cb, lastOp.raw)

\* C1 happens: a GPIOPin watched with callback 2 from no registration has just
\* been dispatched raw level 1
C1_Witness ==
    /\ api = "gpio"
    /\ lastOp.op = "dispatch" /\ lastOp.raw = 1
    /\ lastOp.was.phase = "watching" /\ lastOp.was.clean /\ lastOp.was.cb = 2
    /\ lastOp.invoked = <<[cb |-> 2, value |-> "High"]>>

\* C2: on a GPIOPin that is being watched, a second watch returns false and
\* makes no host arm call, and a later dispatch for the pin still invokes the
\* first callback, and only it.
C2_SecondWatchRejected ==
    api = "gpio" =>
        /\ (lastOp.op = "watch" /\ lastOp.was.phase = "watching")
              => (~lastOp.ret /\ lastOp.armCalls = 0)
        /\ (lastOp.op = "dispatch" /\ lastOp.was.phase = "watching"
                /\ lastOp.was.second)
              => /\ Len(lastOp.invoked) = 1
                 /\ lastOp.invoked[1].cb = lastOp.was.cb

\* C2 happens: after a rejected second watch, a dispatch invoked callback 1
C2_Witness ==
    /\ api = "gpio"
    /\ lastOp.op = "dispatch"
    /\ lastOp.was.phase = "watching" /\ lastOp.was.second /\ lastOp.was.cb = 1
    /\ Len(lastOp.invoked) = 1

\* C3: after unwatch on a watched pin, a dispatch with the same identity
\* invokes no callback and returns normally (gpio.rs and pin.rs).
C3_NoDispatchAfterUnwatch ==
    (lastOp.op = "dispatch" /\ lastOp.was.phase = "unwatched")
        => (lastOp.invoked = <<>> /\ lastOp.outcome = "ok")

\* C4: after watch and unwatch, a new watch that the host accepts returns
\* true, and later dispatches invoke the new callback and not the old one
\* (gpio.rs and pin.rs).
C4_RewatchAfterUnwatch ==
    /\ (lastOp.op = "watch" /\ lastOp.was.phase = "unwatched" /\ lastOp.accepts)
          => lastOp.ret
    /\ (lastOp.op = "dispatch" /\ lastOp.was.phase = "watching" /\ lastOp.was.re)
          => lastOp.invoked = Owed(lastOp.was.cb, lastOp.raw)

\* C5: a watch the host refuses to arm returns false and leaves the registry
\* and the pin's stored callback as they were before the call (gpio.rs and
\* pin.rs).
C5_RefusedWatchLeavesNothing ==
    [][(lastOp'.op = "watch" /\ lastOp'.armCalls = 1 /\ ~lastOp'.accepts)
          => /\ ~lastOp'.ret
             /\ PIN_REGISTRY' = PIN_REGISTRY
             /\ CALLBACK_REGISTRY' = CALLBACK_REGISTRY
             /\ gpio' = gpio]_vars

\* C6: the watch registries hold at most one entry per pin identity:
\* CALLBACK_REGISTRY no two listeners with the same pin_id, PIN_REGISTRY no
\* pin twice.
C6_OneEntryPerPin ==
    /\ \A i, j \in 1..Len(CALLBACK_REGISTRY) :
          CALLBACK_REGISTRY[i].pin_id = CALLBACK_REGISTRY[j].pin_id => i = j
    /\ \A i, j \in 1..Len(PIN_REGISTRY) :
          PIN_REGISTRY[i] = PIN_REGISTRY[j] => i = j

\* the entries of the two registries that do not belong to identity x
Others(x) ==
    <<SelectSeq(CALLBACK_REGISTRY, LAMBDA l : l.pin_id # x),
      SelectSeq(PIN_REGISTRY, LAMBDA a : a # x)>>

\* C7: a callback that unwatches its own pin while dispatch runs it leaves the
\* entries of every other pin as they were, and the next dispatch for that
\* identity invokes no callback (gpio.rs and pin.rs).
C7_SelfUnwatchDuringDispatch ==
    [][/\ (lastOp'.op = "dispatch" /\ lastOp'.act = "unwatch")
             => \A x \in Addrs \cup PPins :
                   (x = IF api = "gpio" THEN host[lastOp'.pin].user_data
                        ELSE lastOp'.pin)
                       => Others(x)' = Others(x)
       /\ (lastOp'.op = "dispatch" /\ lastOp'.was.phase = "unwatched"
               /\ lastOp'.was.self)
             => lastOp'.invoked = <<>>]_vars

\* C8: whenever the host holds an armed watch for a pin, the token it was
\* given resolves to a registered callback that is alive: for a GPIOPin the
\* handle that armed the watch, still at that address with its callback; for
\* a Pin a listener with that pin id.
C8_ArmedTokenResolves ==
    /\ api = "gpio" =>
          \A p \in GPins : host[p].armed =>
              /\ gpio[p].life = "live"
              /\ gpio[p].loc = host[p].user_data
              /\ gpio[p].watch_callback # None
    /\ api = "pin" =>
          \A p \in PPins : host[p].armed => Resolve(CALLBACK_REGISTRY, p) # None

\* C9: after create returns, the user_data given to the host and the entry in
\* I2C_CONFIG_REGISTRY denote a live I2CDeviceConfig holding the slots passed
\* to create, at every later call of a bus trampoline.
C9_ConfigStaysAlive ==
    /\ \A i \in 1..Len(bus) : i2c[bus[i]].live
    /\ \A i \in 1..Len(I2C_CONFIG_REGISTRY) : i2c[I2C_CONFIG_REGISTRY[i]].live
    /\ lastOp.op \in {"connect", "read", "write", "disconnect"}
          => lastOp.outcome = "ok"

\* C10: the connect entry point, called for a registered device whose connect
\* slot is absent, returns true for every address and direction.
C10_ConnectDefaultAccept ==
    (lastOp.op = "connect" /\ ~i2c[lastOp.pin].passed.connect_callback)
        => (lastOp.hasRet /\ lastOp.ret)

\* C11: the write entry point, called for a device whose write slot is
\* present, invokes that slot exactly once with the byte received and returns
\* the boolean result the slot returned to the host as the acknowledgement.
C11_WriteReturnsAck ==
    (lastOp.op = "write" /\ i2c[lastOp.pin].passed.write_callback
        /\ lastOp.act = "none")
        => /\ lastOp.invoked = <<[cb |-> "write", value |-> <<lastOp.data>>]>>
           /\ lastOp.hasRet
           /\ lastOp.ret = lastOp.slotRet

\* C12: the connect entry point, called for a device whose connect slot is
\* present, invokes that slot exactly once with the address and direction it
\* received, invokes no other slot, and returns exactly the result the slot
\* returned.
C12_ConnectReturnsSlotResult ==
    (lastOp.op = "connect" /\ i2c[lastOp.pin].passed.connect_callback
        /\ lastOp.act = "none")
        => /\ lastOp.invoked = <<[cb |-> "connect",
                                  value |-> <<lastOp.address, lastOp.write>>]>>
           /\ lastOp.hasRet
           /\ lastOp.ret = lastOp.slotRet

\* C13: a fault raised inside a user callback while a dispatch entry point
\* runs it is contained: the pin dispatch entry point and the four bus entry
\* points still return normally to the host.
C13_CallbackFaultContained ==
    (lastOp.op \in {"dispatch", "connect", "read", "write", "disconnect"}
        /\ lastOp.act = "panic")
        => lastOp.outcome = "ok"

\* C14: when a pin handle with a live watch is dropped, the watch is disarmed
\* first: once the handle is gone the host holds no armed watch for the pin
\* and no registry entry refers to the handle (GPIOPin and Pin).
C14_DropDisarmsWatch ==
    (lastOp.op = "drop" /\ lastOp.was.phase = "watching")
        => /\ ~host[lastOp.pin].armed
           /\ api = "gpio" =>
                \A i \in 1..Len(PIN_REGISTRY) :
                    PIN_REGISTRY[i] # host[lastOp.pin].user_data
           /\ api = "pin" => Resolve(CALLBACK_REGISTRY, lastOp.pin) = None

\* C15: unwatch on a pin with no active watch (never watched, or already
\* unwatched) is a no-op: it makes no pinWatchStop call (GPIOPin and Pin).
C15_UnwatchWithoutWatchIsNoOp ==
    (lastOp.op = "unwatch" /\ lastOp.was.phase # "watching")
        => lastOp.stopCalls = 0

\* C16: a Pin dispatch for a pin id with no listener in CALLBACK_REGISTRY
\* invokes no callback, leaves CALLBACK_REGISTRY unchanged and returns
\* normally, for every raw level.
C16_UnmatchedDispatchAbsorbed ==
    [][(/\ api = "pin"
        /\ lastOp'.op = "dispatch"
        /\ \A i \in 1..Len(CALLBACK_REGISTRY) :
              CALLBACK_REGISTRY[i].pin_id # lastOp'.pin)
          => /\ lastOp'.invoked = <<>>
             /\ lastOp'.outcome = "ok"
             /\ CALLBACK_REGISTRY' = CALLBACK_REGISTRY
             /\ host' = host]_vars

\* C16 happens: pin 2, which has no listener while pin 1 has one, has just
\* been dispatched raw level 1
C16_Witness ==
    /\ api = "pin"
    /\ lastOp.op = "dispatch" /\ lastOp.pin = 2 /\ lastOp.raw = 1
    /\ Len(CALLBACK_REGISTRY) = 1 /\ CALLBACK_REGISTRY[1].pin_id = 1
    /\ lastOp.invoked = <<>>

\* C17: the raw-level conversion is total and two-valued in read() and in
\* dispatch: raw level 0 gives Low and every nonzero raw level (1, 255) gives
\* High, and the value a watch callback receives is the conversion of the raw
\* level of that same dispatch.
C17_RawLevelConversion ==
    /\ lastOp.op = "pin_read"
          => lastOp.level = IF lastOp.raw = 0 THEN "Low" ELSE "High"
    /\ lastOp.op = "dispatch"
          => \A i \in 1..Len(lastOp.invoked) :
                lastOp.invoked[i].value = IF lastOp.raw = 0 THEN "Low"
                                          ELSE "High"

\* C17 happens: a Pin dispatch of raw level 255 has handed High to callback 1
C17_Witness ==
    /\ api = "pin"
    /\ lastOp.op = "dispatch" /\ lastOp.raw = 255
    /\ lastOp.invoked = <<[cb |-> 1, value |-> "High"]>>

\* C18: for a GPIOPin made by new and changed by set_mode, the handle's local
\* mode, which get_mode returns, is the mode most recently sent to the host
\* for that pin id (by pinInit or pinMode), and watch, unwatch, read and write
\* leave both as they were.
C18_ModeInSync ==
    /\ [](/\ \A p \in GPins : gpio[p].life = "live"
                => gpio[p].mode = host[p].mode
          /\ lastOp.op = "get_mode" => lastOp.mode = host[lastOp.pin].mode)
    /\ [][lastOp'.op \in {"watch", "unwatch", "pin_read", "pin_write"}
             => \A p \in GPins : /\ gpio'[p].mode = gpio[p].mode
                                 /\ host'[p].mode = host[p].mode]_vars

\* C18 happens: a pin made as an Input and set to Output has been watched and
\* then asked for its mode, which is Output on both sides
C18_Witness ==
    /\ lastOp.op = "get_mode" /\ lastOp.mode = "Output"
    /\ lastOp.was.phase = "watching"
    /\ host[lastOp.pin].mode = "Output"
    /\ \E q \in GPins : q # lastOp.pin /\ gpio[q].mode = "Input"

\* C19: a Pin dispatch finishes resolving before it invokes the callback: when
\* the running callback calls watch() on another pin, the reference the
\* dispatch holds to the matched entry is not invalidated, the callback run is
\* the one resolved, and afterwards CALLBACK_REGISTRY is its former entries,
\* each once, followed by the new one.
C19_ReentrantWatchKeepsEntry ==
    [][(lastOp'.op = "dispatch" /\ lastOp'.act = "watch")
          => /\ lastOp'.outcome = "ok"
             /\ Len(lastOp'.invoked) = 1
             /\ lastOp'.invoked[1].cb = Resolve(CALLBACK_REGISTRY, lastOp'.pin)
             /\ Len(CALLBACK_REGISTRY') = Len(CALLBACK_REGISTRY) + 1
             /\ SubSeq(CALLBACK_REGISTRY', 1, Len(CALLBACK_REGISTRY))
                    = CALLBACK_REGISTRY]_vars

\* the GPIOPin handle of pin p has its address in PIN_REGISTRY
InRegistry(p) ==
    /\ gpio[p].life = "live"
    /\ \E i \in 1..Len(PIN_REGISTRY) : PIN_REGISTRY[i] = gpio[p].loc

\* C20: for GPIOPin handles that are neither moved nor dropped, in every state
\* reached by watch and unwatch calls a pin is in PIN_REGISTRY exactly when
\* the host holds an armed watch for it.
C20_RegistryIffArmed ==
    api = "gpio" => \A p \in GPins : InRegistry(p) <=> host[p].armed

\* C20 happens: after a watch and an unwatch the pin is neither in
\* PIN_REGISTRY nor armed, while the other pin is watched, registered and
\* armed
C20_Witness ==
    /\ api = "gpio"
    /\ lastOp.op = "unwatch" /\ lastOp.was.phase = "watching"
    /\ ~InRegistry(lastOp.pin) /\ ~host[lastOp.pin].armed
    /\ \E q \in GPins : q # lastOp.pin /\ InRegistry(q) /\ host[q].armed

=============================================================================
